---- MODULE Spec2Model ----
(***************************************************************************)
(* Feature flag evaluator: the configuration validator, the input          *)
(* validator, the rule engine and the evaluator that sequences them.       *)
(*                                                                         *)
(* JavaScript values are tagged records [t, v]: the validator receives a   *)
(* loosely typed parsed document, so every section, element and field can  *)
(* be undefined, null, a number, a string, an array or an object.          *)
(***************************************************************************)
EXTENDS Integers, Sequences, FiniteSets, TLC

VARIABLES
    engine,          \* a stand-alone RuleEngine: its configuration field
    configuration,   \* FeatureFlagEvaluator.configuration
    inputValidator,  \* FeatureFlagEvaluator.inputValidator.configuration
    ruleEngine,      \* FeatureFlagEvaluator.ruleEngine: its configuration field
    document,        \* the raw document handed to validateConfiguration
    call,            \* the last completed call: operation, argument, result
    pending,         \* loadConfiguration calls suspended at their await, in order
    first            \* a result the caller kept, with the state it was computed in

vars == <<engine, configuration, inputValidator, ruleEngine, document, call,
          pending, first>>

----------------------------------------------------------------------------
(* Bounds of the model. *)

\* rules per stand-alone engine configuration and per document
MaxRules == 2

----------------------------------------------------------------------------
(* JavaScript values *)

Undefined == [t |-> "undefined", v |-> <<>>]
Null == [t |-> "null", v |-> <<>>]
Num(n) == [t |-> "number", v |-> n]
Bool(b) == [t |-> "boolean", v |-> b]
Str(s) == [t |-> "string", v |-> s]
Arr(q) == [t |-> "array", v |-> q]
Obj(r) == [t |-> "object", v |-> r]

Range(q) == {q[i] : i \in 1..Len(q)}

\* The UTF-16 code units of the strings the model uses.
CodeUnits ==
    "" :> <<>> @@ " " :> <<32>> @@
    "Basic" :> <<66, 97, 115, 105, 99>> @@ "Pro" :> <<80, 114, 111>> @@
    "US" :> <<85, 83>> @@ "EU" :> <<69, 85>> @@
    "us" :> <<117, 115>> @@ " US" :> <<32, 85, 83>> @@
    "P" :> <<80>> @@ "r" :> <<114>> @@ "o" :> <<111>> @@
    "a" :> <<97>> @@ "ab" :> <<97, 98>> @@ "B" :> <<66>> @@
    "ghost" :> <<103, 104, 111, 115, 116>> @@
    "u1" :> <<117, 49>> @@ "u2" :> <<117, 50>> @@
    "r1" :> <<114, 49>> @@ "r2" :> <<114, 50>> @@
    "A" :> <<65>> @@ "d" :> <<100>> @@
    "plan" :> <<112, 108, 97, 110>> @@
    "region" :> <<114, 101, 103, 105, 111, 110>> @@
    "userId" :> <<117, 115, 101, 114, 73, 100>> @@
    "equals" :> <<101, 113, 117, 97, 108, 115>> @@
    "in" :> <<105, 110>> @@
    "matches" :> <<109, 97, 116, 99, 104, 101, 115>>

\* !x
Falsy(x) ==
    \/ x.t \in {"undefined", "null"}
    \/ x = Str("")
    \/ x = Num(0)
    \/ x = Bool(FALSE)

\* typeof x
Typeof(x) ==
    CASE x.t = "undefined" -> "undefined"
      [] x.t = "number" -> "number"
      [] x.t = "boolean" -> "boolean"
      [] x.t = "string" -> "string"
      [] OTHER -> "object"

\* x === y: arrays and objects are equal only to themselves, and no value
\* read from a context is the array or object of a configuration.
StrictEquals(x, y) ==
    /\ x.t \notin {"array", "object"}
    /\ x = y

\* s.trim().length === 0
IsBlank(s) == \A i \in 1..Len(CodeUnits[s]) : CodeUnits[s][i] = 32

\* x.f for a field the model's objects carry; absent fields read undefined.
Get(x, f) == IF x.t = "object" /\ f \in DOMAIN x.v THEN x.v[f] ELSE Undefined

\* x.f throws a TypeError
GetThrows(x) == x.t \in {"undefined", "null"}

----------------------------------------------------------------------------
(* Array.prototype.sort() without a comparator on strings: ascending by     *)
(* UTF-16 code units.                                                       *)

RECURSIVE CodeUnitsLess(_, _)
CodeUnitsLess(a, b) ==
    IF a = <<>> THEN b # <<>>
    ELSE IF b = <<>> THEN FALSE
    ELSE IF Head(a) = Head(b) THEN CodeUnitsLess(Tail(a), Tail(b))
    ELSE Head(a) < Head(b)

\* the default sort order: x before y
SortBefore(x, y) == CodeUnitsLess(CodeUnits[x.v], CodeUnits[y.v])

RECURSIVE InsertSorted(_, _)
InsertSorted(q, x) ==
    IF q = <<>> THEN <<x>>
    ELSE IF SortBefore(x, Head(q)) THEN <<x>> \o q
    ELSE <<Head(q)>> \o InsertSorted(Tail(q), x)

RECURSIVE ArraySort(_)
ArraySort(q) ==
    IF q = <<>> THEN <<>>
    ELSE InsertSorted(ArraySort(Tail(q)), Head(q))

\* Set.prototype.add on a Set kept in insertion order
SetAdd(q, x) == IF x \in Range(q) THEN q ELSE Append(q, x)

RECURSIVE SetAddAll(_, _)
SetAddAll(q, xs) ==
    IF xs = <<>> THEN q ELSE SetAddAll(SetAdd(q, Head(xs)), Tail(xs))

----------------------------------------------------------------------------
(* RuleEngine *)

EngineNotLoaded == "Configuration not loaded - call setConfiguration first"

Returned(v) == [threw |-> FALSE, value |-> v, message |-> ""]
Threw(m) == [threw |-> TRUE, value |-> Undefined, message |-> m]

getContextValue(attribute, context) ==
    CASE attribute = Str("userId") -> Get(context, "userId")
      [] attribute = Str("region") -> Get(context, "region")
      [] attribute = Str("plan") -> Get(context, "plan")
      [] OTHER -> Str("")

\* mutant of conditionMatches: in needs an array
conditionMatchesInArrayOnly(condition, context) ==
    LET contextValue == getContextValue(Get(condition, "attribute"), context)
        value == Get(condition, "value")
    IN  CASE Get(condition, "operator") = Str("equals") ->
                StrictEquals(contextValue, value)
          [] Get(condition, "operator") = Str("in") ->
                /\ value.t = "array"
                /\ \E i \in 1..Len(value.v) : StrictEquals(value.v[i], contextValue)
          [] OTHER -> FALSE

conditionMatches(condition, context) ==
    LET contextValue == getContextValue(Get(condition, "attribute"), context)
        value == Get(condition, "value")
    IN  CASE Get(condition, "operator") = Str("equals") ->
                StrictEquals(contextValue, value)
          [] Get(condition, "operator") = Str("in") ->
                IF value.t = "array"
                THEN \E i \in 1..Len(value.v) : StrictEquals(value.v[i], contextValue)
                ELSE StrictEquals(contextValue, value)
          [] OTHER -> FALSE

ruleMatchesAny(rule, context) ==
    \E i \in 1..Len(Get(rule, "conditions").v) :
        conditionMatches(Get(rule, "conditions").v[i], context)

ruleMatches(rule, context) ==
    \A i \in 1..Len(Get(rule, "conditions").v) :
        conditionMatches(Get(rule, "conditions").v[i], context)

\* the loop of evaluateRules: the Set of enabled features, in insertion order
RECURSIVE enabledFeatures(_, _, _)
enabledFeatures(rules, context, acc) ==
    IF rules = <<>> THEN acc
    ELSE enabledFeatures(
            Tail(rules), context,
            IF ruleMatches(Head(rules), context)
            THEN SetAddAll(acc, Get(Head(rules), "features").v)
            ELSE acc)

\* mutants of evaluateRulesOf
evaluateRulesUnsorted(rules, context) == enabledFeatures(rules, context, <<>>)

RECURSIVE allFeatures(_, _)
allFeatures(rules, acc) ==
    IF rules = <<>> THEN acc
    ELSE allFeatures(Tail(rules), SetAddAll(acc, Get(Head(rules), "features").v))

evaluateRulesUnmatched(rules, context) == ArraySort(allFeatures(rules, <<>>))

\* mutant of evaluateRulesOf: the Set of enabled features is kept from one
\* call to the next
evaluateRulesAccumulating(rules, context) ==
    ArraySort(enabledFeatures(rules, context,
        IF call.op = "evaluateRules" /\ ~call.result.threw
        THEN call.result.value.v
        ELSE IF call.op = "evaluate" /\ Get(call.result.value, "success") = Bool(TRUE)
        THEN Get(call.result.value, "features").v
        ELSE <<>>))

\* mutant of evaluateRulesOf: the first matching rule alone decides
RECURSIVE firstMatch(_, _)
firstMatch(rules, context) ==
    IF rules = <<>> THEN <<>>
    ELSE IF ruleMatches(Head(rules), context)
    THEN SetAddAll(<<>>, Get(Head(rules), "features").v)
    ELSE firstMatch(Tail(rules), context)

evaluateRulesFirstMatch(rules, context) == ArraySort(firstMatch(rules, context))

\* mutant of evaluateRulesOf: a later matching rule replaces what the
\* earlier ones enabled
RECURSIVE lastMatch(_, _, _)
lastMatch(rules, context, acc) ==
    IF rules = <<>> THEN acc
    ELSE lastMatch(Tail(rules), context,
                   IF ruleMatches(Head(rules), context)
                   THEN SetAddAll(<<>>, Get(Head(rules), "features").v)
                   ELSE acc)

evaluateRulesLastMatch(rules, context) == ArraySort(lastMatch(rules, context, <<>>))

\* evaluateRules over the rules the engine holds
evaluateRulesOf(rules, context) ==
    ArraySort(enabledFeatures(rules, context, <<>>))

\* mutant of engineConfigured: the engine falls back on an empty rule set
engineAlwaysConfigured(held) == TRUE

\* mutant of engineConfigured: the engine forgets what it was given
engineNeverConfigured(held) == FALSE

\* the engine holds a configuration
engineConfigured(held) == ~Falsy(held)

evaluateRules(held, context) ==
    IF ~engineConfigured(held)
    THEN Threw(EngineNotLoaded)
    ELSE Returned(Arr(evaluateRulesOf(
            IF Falsy(held) THEN <<>> ELSE Get(held, "rules").v, context)))

----------------------------------------------------------------------------
(* The values the stand-alone engine is driven with: typed configurations  *)
(* (FeatureFlagConfiguration) that no validator has seen, and typed user   *)
(* contexts.                                                               *)

Cond(a, o, v) == Obj([attribute |-> Str(a), operator |-> Str(o), value |-> v])
Rule(id, conds, feats) ==
    Obj([id |-> id, conditions |-> conds, features |-> feats])
Context(u, r, p) == Obj([userId |-> u, region |-> r, plan |-> p])
Config(plans, regions, feats, rules) ==
    Obj([supportedPlans |-> plans, supportedRegions |-> regions,
         features |-> feats, rules |-> rules])
Feature(id, name, description) ==
    Obj([id |-> id, name |-> name, description |-> description])

EngineRules ==
    { Rule(Str("r1"), Arr(<<Cond("plan", "equals", Str("Pro"))>>),
           Arr(<<Str("ab"), Str("a")>>)),
      Rule(Str("r2"), Arr(<<Cond("region", "equals", Str("US"))>>),
           Arr(<<Str("a"), Str("B")>>)),
      Rule(Str("r1"), Arr(<<Cond("plan", "equals", Str("Pro")),
                            Cond("region", "equals", Str("EU"))>>),
           Arr(<<Str("B")>>)),
      Rule(Str("r2"), Arr(<<Cond("plan", "in", Arr(<<Str("Basic"), Str("Pro")>>))>>),
           Arr(<<Str("ab")>>)),
      Rule(Str("r1"), Arr(<<Cond("region", "in", Str("EU"))>>),
           Arr(<<Str("ghost"), Str("a")>>)),
      Rule(Str("r2"), Arr(<<Cond("plan", "matches", Str("Pro"))>>),
           Arr(<<Str("ghost")>>)),
      Rule(Str("r1"), Arr(<<>>), Arr(<<Str("a")>>)),
      Rule(Str("r2"), Arr(<<Cond("userId", "equals", Str("u1")),
                            Cond("plan", "in", Arr(<<Str("Basic")>>))>>),
           Arr(<<Str("ab"), Str("B"), Str("ab")>>)) }

RECURSIVE SeqsUpTo(_, _)
SeqsUpTo(S, n) ==
    IF n = 0 THEN {<<>>}
    ELSE LET shorter == SeqsUpTo(S, n - 1)
         IN  shorter \cup {Append(q, x) : q \in shorter, x \in S}

EngineConfigs ==
    { Config(Arr(<<Str("Basic"), Str("Pro")>>), Arr(<<Str("US"), Str("EU")>>),
             Arr(<<Feature(Str("a"), Str("A"), Undefined)>>), Arr(rules)) :
        rules \in SeqsUpTo(EngineRules, MaxRules) }

EngineContexts ==
    { Context(Str(u), Str(r), Str(p)) :
        u \in {"u1", "u2"}, r \in {"US", "EU"}, p \in {"Basic", "Pro"} }

----------------------------------------------------------------------------
(* The stand-alone RuleEngine *)

NoCall == [op |-> "none", arg |-> Undefined, result |-> Returned(Undefined)]

\* the caller has kept no result
NothingKept == [engine |-> Undefined, configuration |-> Undefined, call |-> NoCall]

EngineSetConfiguration(cfg) ==
    /\ engine' = cfg
    /\ call' = [op |-> "setConfiguration", arg |-> cfg,
                result |-> Returned(Undefined)]
    /\ UNCHANGED <<configuration, inputValidator, ruleEngine, document, pending, first>>

EngineEvaluateRules(context) ==
    /\ call' = [op |-> "evaluateRules", arg |-> context,
                result |-> evaluateRules(engine, context)]
    /\ UNCHANGED <<engine, configuration, inputValidator, ruleEngine, document, pending, first>>

InitFresh ==
    /\ engine = Undefined
    /\ configuration = Undefined
    /\ inputValidator = Undefined
    /\ ruleEngine = Undefined
    /\ document = Undefined
    /\ call = NoCall
    /\ pending = <<>>
    /\ first = NothingKept

NextEngine ==
    \/ \E cfg \in EngineConfigs : EngineSetConfiguration(cfg)
    \/ \E context \in EngineContexts : EngineEvaluateRules(context)

SpecEngine == InitFresh /\ [][NextEngine]_vars

----------------------------------------------------------------------------
(* Claims about the rule engine *)

heldRules == IF Falsy(engine) THEN <<>> ELSE Get(engine, "rules").v

returnedList == call.op = "evaluateRules" /\ ~call.result.threw

\* C1: evaluateRules returns exactly the union of the features lists of the
\* rules that match the context: a feature id is in the result if and only
\* if at least one matching rule lists it.
C1_UnionOfMatchingRules ==
    returnedList =>
        Range(call.result.value.v) =
            UNION { Range(Get(heldRules[i], "features").v) :
                      i \in { j \in 1..Len(heldRules) : ruleMatches(heldRules[j], call.arg) } }

\* two rules are held, one matching and one not, and the non-matching rule
\* lists a feature the matching one does not
C1_Witness ==
    /\ returnedList
    /\ \E i, j \in 1..Len(heldRules) :
          /\ ruleMatches(heldRules[i], call.arg)
          /\ ~ruleMatches(heldRules[j], call.arg)
          /\ \E f \in Range(Get(heldRules[j], "features").v) :
                f \notin Range(call.result.value.v)

heldConditions(i) == Get(heldRules[i], "conditions").v
heldFeatures(i) == Get(heldRules[i], "features").v

\* every condition of the i-th held rule matches the context of the call
allConditionsMatch(i) ==
    \A k \in 1..Len(heldConditions(i)) : conditionMatches(heldConditions(i)[k], call.arg)

\* C21: a rule matches a context if and only if every one of its conditions
\* matches: a rule with zero conditions matches every context and gives all
\* its features, and a rule with a failing condition contributes none (a
\* feature of such a rule is returned only when a rule whose conditions all
\* match lists it).
C21_RuleMatchesIffAllConditions ==
    returnedList =>
        \A i \in 1..Len(heldRules) :
            /\ allConditionsMatch(i) =>
                  Range(heldFeatures(i)) \subseteq Range(call.result.value.v)
            /\ ~allConditionsMatch(i) =>
                  \A f \in Range(heldFeatures(i)) \cap Range(call.result.value.v) :
                      \E j \in 1..Len(heldRules) :
                          allConditionsMatch(j) /\ f \in Range(heldFeatures(j))

\* a rule with no condition is held together with a rule of which one
\* condition matches and one fails, and the latter's features are not returned
C21_Witness ==
    /\ returnedList
    /\ \E i, j \in 1..Len(heldRules) :
          /\ heldConditions(i) = <<>>
          /\ Range(heldFeatures(i)) \subseteq Range(call.result.value.v)
          /\ Len(heldConditions(j)) = 2
          /\ \E k \in 1..2 : conditionMatches(heldConditions(j)[k], call.arg)
          /\ \E k \in 1..2 : ~conditionMatches(heldConditions(j)[k], call.arg)
          /\ Range(heldFeatures(j)) \cap Range(call.result.value.v) = {}

\* what a condition is to do with a context: the attribute's value compared
\* with the condition's value under the condition's operator
shouldMatch(condition, context) ==
    LET named == Get(condition, "attribute").v
        read == CASE named = "userId" -> Get(context, "userId")
                  [] named = "region" -> Get(context, "region")
                  [] named = "plan" -> Get(context, "plan")
        value == Get(condition, "value")
        operator == Get(condition, "operator").v
    IN  \/ operator = "equals" /\ value.t = "string" /\ read = value
        \/ operator = "in" /\ value.t = "array" /\ read \in Range(value.v)
        \/ operator = "in" /\ value.t = "string" /\ read = value

\* every condition of the i-th held rule is to match the context of the call
allShouldMatch(i) ==
    \A k \in 1..Len(heldConditions(i)) : shouldMatch(heldConditions(i)[k], call.arg)

\* C22: a condition matches a context exactly when the context's value of
\* the named attribute equals condition.value under equals, is an element of
\* it under in with an array, equals it under in with a bare string; under
\* any other operator it does not match, and the engine does not throw. Seen
\* on the list a configured engine returns: it holds the features of the
\* rules whose conditions are all to match, and nothing else.
C22_ConditionSemantics ==
    (call.op = "evaluateRules" /\ engine # Undefined) =>
        /\ ~call.result.threw
        /\ Range(call.result.value.v) =
              UNION { Range(heldFeatures(i)) :
                        i \in { j \in 1..Len(heldRules) : allShouldMatch(j) } }

\* the one condition held is an in with a bare string, and it matched
C22_Witness ==
    /\ returnedList
    /\ Len(heldRules) = 1
    /\ Len(heldConditions(1)) = 1
    /\ Get(heldConditions(1)[1], "operator") = Str("in")
    /\ Get(heldConditions(1)[1], "value").t = "string"
    /\ call.result.value.v # <<>>

\* the one condition held has an operator the engine does not know
C22_WitnessUnknownOperator ==
    /\ returnedList
    /\ Len(heldRules) = 1
    /\ Len(heldConditions(1)) = 1
    /\ Get(heldConditions(1)[1], "operator") \notin {Str("equals"), Str("in")}
    /\ Get(heldConditions(1)[1], "value") = Get(call.arg, "plan")

\* a sequence rearranged by a permutation of its indices
permuted(q, p) == [i \in 1..Len(q) |-> q[p[i]]]

\* the held rules with the named array of the i-th rule rearranged
heldWithPermuted(i, field, p) ==
    [heldRules EXCEPT ![i] =
        Obj([@.v EXCEPT ![field] = Arr(permuted(@.v, p))])]

\* C23: the list evaluateRules returns does not depend on order: it is the
\* list returned for the same context under every permutation of the rules,
\* of the conditions of a rule and of the features of a rule.
C23_OrderIndependent ==
    returnedList =>
        /\ \A p \in Permutations(1..Len(heldRules)) :
              evaluateRulesOf(permuted(heldRules, p), call.arg) = call.result.value.v
        /\ \A i \in 1..Len(heldRules) :
              /\ \A p \in Permutations(1..Len(heldConditions(i))) :
                    evaluateRulesOf(heldWithPermuted(i, "conditions", p), call.arg)
                        = call.result.value.v
              /\ \A p \in Permutations(1..Len(heldFeatures(i))) :
                    evaluateRulesOf(heldWithPermuted(i, "features", p), call.arg)
                        = call.result.value.v

\* two held rules match, and the Set of enabled features is filled in
\* another order when the rules are swapped
C23_Witness ==
    /\ returnedList
    /\ Len(heldRules) = 2
    /\ allConditionsMatch(1) /\ allConditionsMatch(2)
    /\ enabledFeatures(heldRules, call.arg, <<>>)
          # enabledFeatures(<<heldRules[2], heldRules[1]>>, call.arg, <<>>)

\* the held rules without the i-th
heldWithout(i) == SubSeq(heldRules, 1, i - 1) \o SubSeq(heldRules, i + 1, Len(heldRules))

\* C30: evaluation is monotone in the rule set: the list returned under the
\* held rules holds every feature returned for the same context under the
\* held rules less one, so adding a rule removes no feature.
C30_MonotoneInRules ==
    returnedList =>
        \A i \in 1..Len(heldRules) :
            Range(evaluateRulesOf(heldWithout(i), call.arg))
                \subseteq Range(call.result.value.v)

\* the rule added last brought features, and those of the rule before it
\* stayed
C30_Witness ==
    /\ returnedList
    /\ Len(heldRules) = 2
    /\ evaluateRulesOf(heldWithout(2), call.arg) # <<>>
    /\ evaluateRulesOf(heldWithout(2), call.arg) # call.result.value.v

----------------------------------------------------------------------------
(* ConfigurationLoader.validateConfiguration *)

\* `${x}` in a template literal
RECURSIVE toString(_)
RECURSIVE Join(_)
Join(q) ==
    IF q = <<>> THEN ""
    ELSE (IF Head(q).t \in {"undefined", "null"} THEN "" ELSE toString(Head(q)))
         \o (IF Len(q) > 1 THEN "," \o Join(Tail(q)) ELSE "")
toString(x) ==
    CASE x.t = "string" -> x.v
      [] x.t = "undefined" -> "undefined"
      [] x.t = "null" -> "null"
      [] x.t = "number" -> <<"0", "1", "2", "3", "4", "5", "6", "7", "8", "9">>[x.v + 1]
      [] x.t = "boolean" -> IF x.v THEN "true" ELSE "false"
      [] x.t = "array" -> Join(x.v)
      [] OTHER -> "[object Object]"

\* typeof x === 'string' && x.trim().length > 0
NonEmptyString(x) == Typeof(x) = "string" /\ ~IsBlank(x.v)

\* Set.prototype.has: arrays and objects are members only by identity
SetHas(S, x) == x.t \notin {"array", "object"} /\ x \in S

\* new Set(x || []): the members, for the values that can be iterated
SetOf(x) ==
    CASE Falsy(x) -> {}
      [] x.t = "array" -> Range(x.v)
      [] x.t = "string" ->
            { Str(c) : c \in { d \in DOMAIN CodeUnits :
                Len(CodeUnits[d]) = 1 /\ CodeUnits[d][1] \in Range(CodeUnits[x.v]) } }
      [] OTHER -> {}

\* new Set(x || []) throws: x is truthy and not iterable
SetOfThrows(x) == ~Falsy(x) /\ x.t \notin {"array", "string"}

\* lines 89-99 and 101-111: a list of supported values
supportedErrors(list, name) ==
    IF list.t # "array" THEN <<name \o " must be an array">>
    ELSE IF Len(list.v) = 0 THEN <<name \o " cannot be empty">>
    ELSE IF ~\A i \in 1..Len(list.v) : NonEmptyString(list.v[i])
    THEN <<"All " \o name \o " must be non-empty strings">>
    ELSE <<>>

\* mutant of featureErrors: duplicates are not looked for
featureErrorsNoDuplicates(feature, index, featureIds) ==
    IF Falsy(feature) \/ Typeof(feature) # "object"
    THEN [errors |-> <<"Feature at index " \o toString(Num(index)) \o " must be an object">>,
          ids |-> featureIds]
    ELSE LET id == Get(feature, "id")
             name == Get(feature, "name")
             description == Get(feature, "description")
         IN  IF Falsy(id) \/ Typeof(id) # "string" \/ IsBlank(id.v)
             THEN [errors |-> <<"Feature at index " \o toString(Num(index))
                                  \o " must have a non-empty id">>,
                   ids |-> featureIds]
             ELSE [errors |->
                      (IF Falsy(name) \/ Typeof(name) # "string" \/ IsBlank(name.v)
                       THEN <<"Feature " \o toString(id) \o " must have a non-empty name">>
                       ELSE <<>>)
                      \o
                      (IF description # Undefined
                          /\ (Typeof(description) # "string" \/ IsBlank(description.v))
                       THEN <<"Feature " \o toString(id)
                                \o " description must be a non-empty string if provided">>
                       ELSE <<>>),
                   ids |-> featureIds \cup {id}]

\* lines 120-158: one element of the features array; featureIds are the ids
\* seen before it
featureErrors(feature, index, featureIds) ==
    IF Falsy(feature) \/ Typeof(feature) # "object"
    THEN [errors |-> <<"Feature at index " \o toString(Num(index)) \o " must be an object">>,
          ids |-> featureIds]
    ELSE LET id == Get(feature, "id")
             name == Get(feature, "name")
             description == Get(feature, "description")
         IN  IF Falsy(id) \/ Typeof(id) # "string" \/ IsBlank(id.v)
             THEN [errors |-> <<"Feature at index " \o toString(Num(index))
                                  \o " must have a non-empty id">>,
                   ids |-> featureIds]
             ELSE IF id \in featureIds
             THEN [errors |-> <<"Duplicate feature id: " \o toString(id)>>,
                   ids |-> featureIds]
             ELSE [errors |->
                      (IF Falsy(name) \/ Typeof(name) # "string" \/ IsBlank(name.v)
                       THEN <<"Feature " \o toString(id) \o " must have a non-empty name">>
                       ELSE <<>>)
                      \o
                      (IF description # Undefined
                          /\ (Typeof(description) # "string" \/ IsBlank(description.v))
                       THEN <<"Feature " \o toString(id)
                                \o " description must be a non-empty string if provided">>
                       ELSE <<>>),
                   ids |-> featureIds \cup {id}]

RECURSIVE featuresForEach(_, _, _)
featuresForEach(features, index, featureIds) ==
    IF index >= Len(features) THEN <<>>
    ELSE LET one == featureErrors(features[index + 1], index, featureIds)
         IN  one.errors \o featuresForEach(features, index + 1, one.ids)

\* lines 113-159: the features section
featuresErrors(features) ==
    IF features.t # "array" THEN <<"features must be an array">>
    ELSE IF Len(features.v) = 0 THEN <<"features cannot be empty">>
    ELSE featuresForEach(features.v, 0, {})

\* `${rule.id || index}`
ruleLabel(rule, index) ==
    toString(IF Falsy(Get(rule, "id")) THEN Num(index) ELSE Get(rule, "id"))

\* lines 192-240: one element of a rule's conditions array
conditionErrors(condition, condIndex, label, validPlans, validRegions) ==
    LET where == "Rule " \o label \o " condition " \o toString(Num(condIndex))
        attribute == Get(condition, "attribute")
        operator == Get(condition, "operator")
        value == Get(condition, "value")
    IN  IF Falsy(condition) \/ Typeof(condition) # "object"
        THEN <<where \o " must be an object">>
        ELSE (IF attribute \notin {Str("plan"), Str("region"), Str("userId")}
              THEN <<where \o " has invalid attribute: " \o toString(attribute)>>
              ELSE <<>>)
             \o
             (IF operator \notin {Str("equals"), Str("in")}
              THEN <<where \o " has invalid operator: " \o toString(operator)>>
              ELSE <<>>)
             \o
             (IF value = Undefined \/ value = Null
              THEN <<where \o " must have a value">>
              ELSE <<>>)
             \o
             (IF attribute = Str("plan") /\ operator = Str("equals")
                 /\ ~SetHas(validPlans, value)
              THEN <<"Rule " \o label \o " references undefined plan: " \o toString(value)>>
              ELSE <<>>)
             \o
             (IF attribute = Str("region") /\ operator = Str("equals")
                 /\ ~SetHas(validRegions, value)
              THEN <<"Rule " \o label \o " references undefined region: " \o toString(value)>>
              ELSE <<>>)

RECURSIVE conditionsForEach(_, _, _, _, _)
conditionsForEach(conditions, condIndex, label, validPlans, validRegions) ==
    IF condIndex >= Len(conditions) THEN <<>>
    ELSE conditionErrors(conditions[condIndex + 1], condIndex, label,
                         validPlans, validRegions)
         \o conditionsForEach(conditions, condIndex + 1, label, validPlans, validRegions)

\* mutant of ruleFeatureErrors: feature ids are not looked up
ruleFeatureErrorsUnchecked(featureId, label, validFeatureIds) ==
    IF Typeof(featureId) # "string" \/ IsBlank(featureId.v)
    THEN <<"Rule " \o label \o " has invalid feature id: " \o toString(featureId)>>
    ELSE <<>>

\* lines 248-261: one element of a rule's features array
ruleFeatureErrors(featureId, label, validFeatureIds) ==
    IF Typeof(featureId) # "string" \/ IsBlank(featureId.v)
    THEN <<"Rule " \o label \o " has invalid feature id: " \o toString(featureId)>>
    ELSE IF ~SetHas(validFeatureIds, featureId)
    THEN <<"Rule " \o label \o " references undefined feature: " \o toString(featureId)>>
    ELSE <<>>

RECURSIVE ruleFeaturesForEach(_, _, _)
ruleFeaturesForEach(features, label, validFeatureIds) ==
    IF features = <<>> THEN <<>>
    ELSE ruleFeatureErrors(Head(features), label, validFeatureIds)
         \o ruleFeaturesForEach(Tail(features), label, validFeatureIds)

\* lines 173-263: one element of the rules array
ruleErrors(rule, index, validFeatureIds, validPlans, validRegions) ==
    LET id == Get(rule, "id")
        conditions == Get(rule, "conditions")
        features == Get(rule, "features")
        label == ruleLabel(rule, index)
    IN  IF Falsy(rule) \/ Typeof(rule) # "object"
        THEN <<"Rule at index " \o toString(Num(index)) \o " must be an object">>
        ELSE (IF Falsy(id) \/ Typeof(id) # "string" \/ IsBlank(id.v)
              THEN <<"Rule at index " \o toString(Num(index)) \o " must have a non-empty id">>
              ELSE <<>>)
             \o
             (IF conditions.t # "array" \/ Len(conditions.v) = 0
              THEN <<"Rule " \o label \o " must have non-empty conditions array">>
              ELSE conditionsForEach(conditions.v, 0, label, validPlans, validRegions))
             \o
             (IF features.t # "array" \/ Len(features.v) = 0
              THEN <<"Rule " \o label \o " must have non-empty features array">>
              ELSE ruleFeaturesForEach(features.v, label, validFeatureIds))

RECURSIVE rulesForEach(_, _, _, _, _)
rulesForEach(rules, index, validFeatureIds, validPlans, validRegions) ==
    IF index >= Len(rules) THEN <<>>
    ELSE ruleErrors(rules[index + 1], index, validFeatureIds, validPlans, validRegions)
         \o rulesForEach(rules, index + 1, validFeatureIds, validPlans, validRegions)

\* line 167-169: config.features?.map(f => f.id) throws a TypeError when the
\* section is neither nullish nor an array, or holds a nullish element
featureIdsThrows(features) ==
    IF features.t \in {"undefined", "null"} THEN FALSE
    ELSE IF features.t # "array" THEN TRUE
    ELSE \E i \in 1..Len(features.v) : GetThrows(features.v[i])

\* line 167-169: new Set(config.features?.map(f => f.id) || [])
featureIdsOf(features) ==
    IF features.t # "array" THEN {}
    ELSE { Get(features.v[i], "id") : i \in 1..Len(features.v) }

\* lines 166-171: building the three lookup sets throws
lookupSetsThrow(config) ==
    \/ featureIdsThrows(Get(config, "features"))
    \/ SetOfThrows(Get(config, "supportedPlans"))
    \/ SetOfThrows(Get(config, "supportedRegions"))

\* lines 161-264: the rules section, when the lookup sets can be built
rulesErrors(config) ==
    LET rules == Get(config, "rules")
    IN  IF rules.t # "array" THEN <<"rules must be an array">>
        ELSE IF Len(rules.v) = 0 THEN <<"rules cannot be empty">>
        ELSE rulesForEach(rules.v, 0,
                          featureIdsOf(Get(config, "features")),
                          SetOf(Get(config, "supportedPlans")),
                          SetOf(Get(config, "supportedRegions")))

RECURSIVE Strs(_)
Strs(q) == IF q = <<>> THEN <<>> ELSE <<Str(Head(q))>> \o Strs(Tail(q))

\* mutant of validationResult: the verdict ignores the errors collected
validationResultAlwaysValid(errors) ==
    Obj([isValid |-> Bool(TRUE), errors |-> Arr(Strs(errors))])

\* lines 266-269 (and 85): { isValid: errors.length === 0, errors }
validationResult(errors) ==
    Obj([isValid |-> Bool(Len(errors) = 0), errors |-> Arr(Strs(errors))])

\* the rules section is reached with a non-empty array
rulesAreChecked(config) ==
    Get(config, "rules").t = "array" /\ Len(Get(config, "rules").v) > 0

\* mutant of isObject: null is taken for an object
isObjectByTypeof(config) == Typeof(config) = "object"

\* line 83: config && typeof config === 'object'
isObject(config) == ~Falsy(config) /\ Typeof(config) = "object"

validateConfiguration(config) ==
    IF ~isObject(config)
    THEN Returned(Obj([isValid |-> Bool(FALSE),
                       errors |-> Arr(<<Str("Configuration must be an object")>>)]))
    ELSE IF rulesAreChecked(config) /\ lookupSetsThrow(config)
    THEN Threw("TypeError")
    ELSE Returned(validationResult(
            supportedErrors(Get(config, "supportedPlans"), "supportedPlans")
            \o supportedErrors(Get(config, "supportedRegions"), "supportedRegions")
            \o featuresErrors(Get(config, "features"))
            \o rulesErrors(config)))

----------------------------------------------------------------------------
(* The raw documents validateConfiguration is driven with: every section   *)
(* ranges over well-formed and defective values.                           *)

EmptyObject == Obj(<<>>)

FeatureA == Feature(Str("a"), Str("A"), Undefined)
FeatureAB == Feature(Str("ab"), Str("A"), Str("d"))
FeatureB == Feature(Str("B"), Str("A"), Undefined)

PlansValues ==
    { Arr(<<Str("Basic"), Str("Pro")>>), Arr(<<Str("Pro")>>),
      Arr(<<Str("Pro"), Str("Pro")>>), Arr(<<Str("Pro"), Str(" ")>>),
      Arr(<<>>), Str("Pro"), Num(5), Undefined }

RegionsValues ==
    { Arr(<<Str("US"), Str("EU")>>), Arr(<<Str("EU")>>),
      Arr(<<Str("US"), Null>>), Null, EmptyObject }

FeaturesValues ==
    { Arr(<<FeatureAB, FeatureA, FeatureB>>),
      Arr(<<FeatureA, FeatureB>>),
      Arr(<<FeatureA, FeatureA>>),
      Arr(<<FeatureA, Feature(Str("a"), Str(" "), Str(" "))>>),
      Arr(<<Feature(Undefined, Undefined, Str(""))>>),
      Arr(<<FeatureA, Feature(Str("B"), Str(" "), Num(5))>>),
      Arr(<<Null, FeatureA>>),
      Arr(<<Str("a"), FeatureA>>),
      Arr(<<>>), Undefined, Null, Str("a"), Num(5), EmptyObject }

DocumentRules ==
    { Rule(Str("r1"), Arr(<<Cond("plan", "equals", Str("Pro"))>>),
           Arr(<<Str("ab"), Str("a")>>)),
      Rule(Str("r2"), Arr(<<Cond("region", "equals", Str("US")),
                            Cond("plan", "in", Arr(<<Str("Basic"), Str("ghost")>>))>>),
           Arr(<<Str("a"), Str("B")>>)),
      Rule(Str("r1"), Arr(<<Cond("plan", "equals", Str("P"))>>),
           Arr(<<Str("B")>>)),
      Rule(Str("r1"), Arr(<<Cond("plan", "equals", Str("ghost"))>>),
           Arr(<<Str("a")>>)),
      Rule(Str("r2"), Arr(<<Cond("region", "equals", Str("ghost")),
                            Cond("userId", "in", Str("u1"))>>),
           Arr(<<Str("ghost")>>)),
      Null,
      Rule(Undefined, Arr(<<>>), Arr(<<>>)),
      Rule(Str(" "), Arr(<<Null, Cond("role", "matches", Null)>>),
           Arr(<<Num(5), Str(" ")>>)) }

RulesValues ==
    { Arr(rules) : rules \in SeqsUpTo(DocumentRules, MaxRules) }
    \cup { Undefined, Str("r1") }

NonObjectDocuments ==
    { Null, Undefined, Str("a"), Str(""), Num(5), Num(0), Bool(TRUE), Bool(FALSE) }

Documents ==
    { Config(plans, regions, feats, rules) :
        plans \in PlansValues, regions \in RegionsValues,
        feats \in FeaturesValues, rules \in RulesValues }
    \cup NonObjectDocuments \cup { Arr(<<>>) }

----------------------------------------------------------------------------
(* validateConfiguration applied to a document *)

ValidateConfiguration ==
    /\ call' = [op |-> "validateConfiguration", arg |-> document,
                result |-> validateConfiguration(document)]
    /\ UNCHANGED <<engine, configuration, inputValidator, ruleEngine, document, pending, first>>

InitDocument ==
    /\ engine = Undefined
    /\ configuration = Undefined
    /\ inputValidator = Undefined
    /\ ruleEngine = Undefined
    /\ document \in Documents
    /\ call = NoCall
    /\ pending = <<>>
    /\ first = NothingKept

NextValidate == ValidateConfiguration

SpecValidate == InitDocument /\ [][NextValidate]_vars

----------------------------------------------------------------------------
(* Claims about validateConfiguration *)

validated == call.op = "validateConfiguration"

errorsOf(result) == Get(result.value, "errors").v

passed == validated /\ ~call.result.threw /\ Get(call.result.value, "isValid") = Bool(TRUE)

\* C8: validateConfiguration never throws: for every input document it
\* returns a {isValid, errors} result in which every defect is a string.
C8_NeverThrows ==
    validated =>
        /\ ~call.result.threw
        /\ Get(call.result.value, "errors").t = "array"
        /\ \A e \in Range(errorsOf(call.result)) : Typeof(e) = "string"

\* C9: in every result validateConfiguration returns, errors is an array and
\* isValid is true if and only if errors is empty.
C9_ValidIffNoErrors ==
    (validated /\ ~call.result.threw) =>
        /\ Get(call.result.value, "errors").t = "array"
        /\ Get(call.result.value, "isValid").t = "boolean"
        /\ Get(call.result.value, "isValid").v = (Len(errorsOf(call.result)) = 0)

C9_Witness ==
    /\ validated /\ ~call.result.threw
    /\ Len(errorsOf(call.result)) > 1
    /\ Typeof(document) = "object"

\* the feature ids a document declares
declaredFeatureIds(doc) ==
    IF Get(doc, "features").t # "array" THEN {}
    ELSE { Get(f, "id") : f \in { g \in Range(Get(doc, "features").v) : ~GetThrows(g) } }

\* the values of a list of supported values
declared(list) == IF list.t = "array" THEN Range(list.v) ELSE {}

documentRules == IF Get(document, "rules").t = "array" THEN Get(document, "rules").v ELSE <<>>

conditionsOf(rule) ==
    IF Get(rule, "conditions").t = "array" THEN Get(rule, "conditions").v ELSE <<>>

ruleFeaturesOf(rule) ==
    IF Get(rule, "features").t = "array" THEN Get(rule, "features").v ELSE <<>>

\* the references of the document that its own declarations do not cover,
\* each with the error that names it
undefinedReferences ==
    { "Rule " \o ruleLabel(documentRules[i], i - 1) \o " references undefined feature: " \o f.v :
        <<i, f>> \in { <<j, g>> \in (1..Len(documentRules)) \X { Str(x) : x \in DOMAIN CodeUnits } :
            /\ g \in Range(ruleFeaturesOf(documentRules[j]))
            /\ ~IsBlank(g.v)
            /\ g \notin declaredFeatureIds(document) } }
    \cup
    { "Rule " \o ruleLabel(documentRules[i], i - 1) \o " references undefined "
        \o c.attribute \o ": " \o c.value :
        <<i, c>> \in { <<j, d>> \in (1..Len(documentRules))
                         \X [attribute : {"plan", "region"}, value : DOMAIN CodeUnits] :
            /\ Cond(d.attribute, "equals", Str(d.value)) \in Range(conditionsOf(documentRules[j]))
            /\ Str(d.value) \notin
                  declared(Get(document, IF d.attribute = "plan"
                                         THEN "supportedPlans" ELSE "supportedRegions")) } }

\* every rule's feature ids are declared, and so is the value of every
\* equals condition on plan and on region
ReferentialIntegrity ==
    /\ \A i \in 1..Len(documentRules) :
          /\ Range(ruleFeaturesOf(documentRules[i])) \subseteq declaredFeatureIds(document)
          /\ \A c \in Range(conditionsOf(documentRules[i])) :
                Get(c, "operator") = Str("equals") =>
                    /\ Get(c, "attribute") = Str("plan") =>
                          Get(c, "value") \in declared(Get(document, "supportedPlans"))
                    /\ Get(c, "attribute") = Str("region") =>
                          Get(c, "value") \in declared(Get(document, "supportedRegions"))

\* C10: every configuration that passes validateConfiguration has
\* referential integrity, and a document that violates it fails with an
\* error naming the undefined feature, plan or region.
C10_ReferentialIntegrity ==
    validated =>
        /\ passed => ReferentialIntegrity
        /\ (Typeof(document) = "object" /\ undefinedReferences # {}) =>
              /\ ~call.result.threw
              /\ Get(call.result.value, "isValid") = Bool(FALSE)
              /\ \A e \in undefinedReferences : Str(e) \in Range(errorsOf(call.result))

\* the part of C10 that the code keeps: what passes has referential
\* integrity, and a violating document for which a result is returned and
\* whose supported lists are arrays carries the errors that name its
\* undefined references
C10_IntegrityOfReturnedResults ==
    (validated /\ ~call.result.threw) =>
        /\ passed => ReferentialIntegrity
        /\ ( /\ Typeof(document) = "object" /\ undefinedReferences # {}
             /\ Get(document, "supportedPlans").t \in {"array", "undefined"}
             /\ Get(document, "supportedRegions").t \in {"array", "null"} ) =>
              /\ Get(call.result.value, "isValid") = Bool(FALSE)
              /\ \A e \in undefinedReferences : Str(e) \in Range(errorsOf(call.result))

C10_Witness ==
    /\ passed
    /\ Len(documentRules) = MaxRules
    /\ \E i \in 1..Len(documentRules) : Len(conditionsOf(documentRules[i])) > 1

\* the values a condition compares with: its value, or each element of the
\* array of an in condition
comparedValues(c) ==
    IF Get(c, "value").t = "array" THEN Range(Get(c, "value").v) ELSE {Get(c, "value")}

\* C11: in every configuration validateConfiguration accepts, the values of
\* all conditions on plan and on region, of operator equals and of operator
\* in (each element of an in array), are in supportedPlans and in
\* supportedRegions respectively.
C11_ConditionValuesDeclared ==
    passed =>
        \A i \in 1..Len(documentRules) :
            \A c \in Range(conditionsOf(documentRules[i])) :
                /\ Get(c, "attribute") = Str("plan") =>
                      comparedValues(c) \subseteq declared(Get(document, "supportedPlans"))
                /\ Get(c, "attribute") = Str("region") =>
                      comparedValues(c) \subseteq declared(Get(document, "supportedRegions"))

\* the non-blank ids that two feature objects of the document share
duplicatedFeatureIds ==
    LET features == IF Get(document, "features").t = "array"
                    THEN Get(document, "features").v ELSE <<>>
    IN  { Get(features[i], "id") :
            i \in { j \in 1..Len(features) :
                      /\ features[j].t = "object"
                      /\ Get(features[j], "id").t = "string"
                      /\ ~IsBlank(Get(features[j], "id").v)
                      /\ \E k \in 1..Len(features) :
                            k # j /\ features[k].t = "object"
                                  /\ Get(features[k], "id") = Get(features[j], "id") } }

\* C12: a document whose features array holds two feature objects with the
\* same non-empty id fails validation with the error
\* "Duplicate feature id: <id>".
C12_DuplicateFeatureId ==
    (validated /\ document.t = "object" /\ duplicatedFeatureIds # {}) =>
        /\ ~call.result.threw
        /\ Get(call.result.value, "isValid") = Bool(FALSE)
        /\ \A id \in duplicatedFeatureIds :
              Str("Duplicate feature id: " \o id.v) \in Range(errorsOf(call.result))

\* the part of C12 that the code keeps: whenever a result is returned for
\* such a document, it is a failure that names every duplicated id
C12_DuplicateReportedWhenReturned ==
    (validated /\ ~call.result.threw /\ document.t = "object"
       /\ duplicatedFeatureIds # {}) =>
        /\ Get(call.result.value, "isValid") = Bool(FALSE)
        /\ \A id \in duplicatedFeatureIds :
              Str("Duplicate feature id: " \o id.v) \in Range(errorsOf(call.result))

\* no value occurs twice in a list
NoDuplicates(list) ==
    list.t = "array" =>
        \A i, j \in 1..Len(list.v) : i # j => list.v[i] # list.v[j]

\* C13: every configuration that passes validateConfiguration has
\* supportedPlans and supportedRegions without a repeated value.
C13_SupportedValuesUnique ==
    passed =>
        /\ NoDuplicates(Get(document, "supportedPlans"))
        /\ NoDuplicates(Get(document, "supportedRegions"))

\* the error a section that is missing, not an array or empty is reported with
sectionErrors(name) ==
    IF Get(document, name).t # "array" THEN {name \o " must be an array"}
    ELSE IF Get(document, name).v = <<>> THEN {name \o " cannot be empty"}
    ELSE {}

\* the errors of the sections that precede the rules
earlierSectionErrors ==
    sectionErrors("supportedPlans") \cup sectionErrors("supportedRegions")
        \cup sectionErrors("features")

\* the rules that are not objects, each with the error that reports it
ruleDefects ==
    { "Rule at index " \o toString(Num(i - 1)) \o " must be an object" :
        i \in { j \in 1..Len(documentRules) :
                  Falsy(documentRules[j]) \/ Typeof(documentRules[j]) # "object" } }

\* C14: validateConfiguration checks the rules section even when an earlier
\* section is missing, empty or otherwise not a usable array: the one result
\* carries the earlier sections' errors together with the rule defects, the
\* references being looked up in whatever the document declares.
C14_RulesCheckedAfterInvalidSections ==
    (validated /\ document.t = "object" /\ earlierSectionErrors # {}
       /\ Len(documentRules) > 0) =>
        /\ ~call.result.threw
        /\ \A e \in earlierSectionErrors \cup ruleDefects \cup undefinedReferences :
              Str(e) \in Range(errorsOf(call.result))

\* the part of C14 that the code keeps: when every defective earlier section
\* is absent or an array, a result is returned and carries all these errors
C14_RulesCheckedWhenSetsBuild ==
    (validated /\ document.t = "object" /\ earlierSectionErrors # {}
       /\ Len(documentRules) > 0
       /\ \A name \in {"supportedPlans", "supportedRegions", "features"} :
             Get(document, name).t \in {"array", "undefined", "null"}
       /\ (Get(document, "features").t = "array" =>
             \A f \in Range(Get(document, "features").v) : ~GetThrows(f))) =>
        /\ ~call.result.threw
        /\ \A e \in earlierSectionErrors \cup ruleDefects \cup undefinedReferences :
              Str(e) \in Range(errorsOf(call.result))

\* an earlier section is missing, and a result reports that together with an
\* undefined reference of a rule
C14_Witness ==
    /\ validated /\ ~call.result.threw /\ document.t = "object"
    /\ Get(document, "features") = Undefined
    /\ undefinedReferences # {}
    /\ Len(documentRules) = MaxRules

\* C25: for a document that is not a non-null object (null, undefined, a
\* string, a number, a boolean) validateConfiguration returns isValid=false
\* with the one error "Configuration must be an object" and checks no
\* section.
C25_NonObjectDocument ==
    (validated /\ document.t \in {"null", "undefined", "string", "number", "boolean"}) =>
        /\ ~call.result.threw
        /\ call.result.value =
              Obj([isValid |-> Bool(FALSE),
                   errors |-> Arr(<<Str("Configuration must be an object")>>)])

C25_Witness == validated /\ document = Null

\* the elements of the features section
documentFeatures ==
    IF document.t = "object" /\ Get(document, "features").t = "array"
    THEN Get(document, "features").v ELSE <<>>

\* the name of the i-th feature is missing or blank
nameDefect(i) ==
    LET name == Get(documentFeatures[i], "name")
    IN  name.t # "string" \/ IsBlank(name.v)

\* the description of the i-th feature is present but blank
descriptionDefect(i) ==
    LET description == Get(documentFeatures[i], "description")
    IN  description.t = "string" /\ IsBlank(description.v)

\* the errors that report a defect of the i-th feature, which is named by
\* its id or by its index
defectErrors(i, defect) ==
    { Str("Feature " \o toString(Get(documentFeatures[i], "id")) \o defect),
      Str("Feature at index " \o toString(Num(i - 1)) \o defect) }

\* the name and description defects of the i-th feature are reported
defectsReported(i) ==
    /\ nameDefect(i) =>
          defectErrors(i, " must have a non-empty name")
              \cap Range(errorsOf(call.result)) # {}
    /\ descriptionDefect(i) =>
          defectErrors(i, " description must be a non-empty string if provided")
              \cap Range(errorsOf(call.result)) # {}

\* C26: in the features section every defect of every element is reported:
\* a feature object with a missing or blank name gets a name error and one
\* with a blank description gets a description error, whether or not its id
\* is missing, blank or a duplicate.
C26_EveryFeatureDefectReported ==
    (validated /\ ~call.result.threw) =>
        \A i \in 1..Len(documentFeatures) :
            documentFeatures[i].t = "object" => defectsReported(i)

\* the i-th feature has a non-blank id that no earlier feature has
firstOfItsId(i) ==
    /\ Get(documentFeatures[i], "id").t = "string"
    /\ ~IsBlank(Get(documentFeatures[i], "id").v)
    /\ \A k \in 1..(i - 1) :
          documentFeatures[k].t = "object" =>
              Get(documentFeatures[k], "id") # Get(documentFeatures[i], "id")

\* the part of C26 that the code keeps: the name and description defects of
\* a feature are reported when its id is non-blank and not a duplicate
C26_DefectsReportedForValidIds ==
    (validated /\ ~call.result.threw) =>
        \A i \in 1..Len(documentFeatures) :
            (documentFeatures[i].t = "object" /\ firstOfItsId(i)) => defectsReported(i)

\* a feature with a valid id has a blank name and a non-string description
C26_WitnessValidId ==
    /\ validated /\ ~call.result.threw
    /\ \E i \in 1..Len(documentFeatures) :
          /\ documentFeatures[i].t = "object" /\ firstOfItsId(i)
          /\ nameDefect(i)

----------------------------------------------------------------------------
(* EvaluationError *)

CONFIG_FILE_NOT_FOUND == "Configuration file not found"
CONFIG_PARSE_ERROR == "Failed to parse YAML configuration"
CONFIG_VALIDATION_ERROR == "Configuration validation failed"
\* mutant of CONFIG_NOT_LOADED: the message of the rule engine
CONFIG_NOT_LOADED_Engine == EngineNotLoaded
CONFIG_NOT_LOADED == "Configuration not loaded - call loadConfiguration first"
MISSING_CONTEXT == "Missing or null user context"
INVALID_USER_ID == "Invalid or empty userId"
UNSUPPORTED_REGION == "Unsupported region"
UNSUPPORTED_PLAN == "Unsupported plan"

----------------------------------------------------------------------------
(* InputValidatorImpl *)

\* Array.prototype.includes
Includes(list, x) == \E i \in 1..Len(list.v) : StrictEquals(list.v[i], x)

isValidUserId(userId) ==
    /\ ~Falsy(userId)
    /\ Typeof(userId) = "string"
    /\ ~IsBlank(userId.v)

isValidRegion(held, region) ==
    /\ ~Falsy(region)
    /\ Typeof(region) = "string"
    /\ Includes(Get(held, "supportedRegions"), region)

isValidPlan(held, plan) ==
    /\ ~Falsy(plan)
    /\ Typeof(plan) = "string"
    /\ Includes(Get(held, "supportedPlans"), plan)

\* mutant of validate: the region is not checked
validateIgnoringRegion(held, context) ==
    IF Falsy(held) THEN validationResult(<<CONFIG_NOT_LOADED>>)
    ELSE IF Falsy(context) THEN validationResult(<<MISSING_CONTEXT>>)
    ELSE validationResult(
            (IF ~isValidUserId(Get(context, "userId")) THEN <<INVALID_USER_ID>> ELSE <<>>)
            \o (IF ~isValidPlan(held, Get(context, "plan"))
                THEN <<UNSUPPORTED_PLAN>> ELSE <<>>))

\* mutant of validate: the checks stop at the first invalid field
validateFirstErrorOnly(held, context) ==
    IF Falsy(held) THEN validationResult(<<CONFIG_NOT_LOADED>>)
    ELSE IF Falsy(context) THEN validationResult(<<MISSING_CONTEXT>>)
    ELSE IF ~isValidUserId(Get(context, "userId")) THEN validationResult(<<INVALID_USER_ID>>)
    ELSE IF ~isValidRegion(held, Get(context, "region"))
    THEN validationResult(<<UNSUPPORTED_REGION>>)
    ELSE IF ~isValidPlan(held, Get(context, "plan"))
    THEN validationResult(<<UNSUPPORTED_PLAN>>)
    ELSE validationResult(<<>>)

\* validate(context) of a validator holding `held`
validate(held, context) ==
    IF Falsy(held) THEN validationResult(<<CONFIG_NOT_LOADED>>)
    ELSE IF Falsy(context) THEN validationResult(<<MISSING_CONTEXT>>)
    ELSE validationResult(
            (IF ~isValidUserId(Get(context, "userId")) THEN <<INVALID_USER_ID>> ELSE <<>>)
            \o (IF ~isValidRegion(held, Get(context, "region"))
                THEN <<UNSUPPORTED_REGION>> ELSE <<>>)
            \o (IF ~isValidPlan(held, Get(context, "plan"))
                THEN <<UNSUPPORTED_PLAN>> ELSE <<>>))

----------------------------------------------------------------------------
(* ConfigurationLoader.loadFromFile *)

\* errors.join(', ')
RECURSIVE JoinErrors(_)
JoinErrors(q) ==
    IF q = <<>> THEN ""
    ELSE toString(Head(q)) \o (IF Len(q) > 1 THEN ", " \o JoinErrors(Tail(q)) ELSE "")

Failure(error) ==
    Obj([success |-> Bool(FALSE), configuration |-> Undefined, error |-> Str(error)])

\* x || []
OrEmpty(x) == IF Falsy(x) THEN Arr(<<>>) ELSE x

\* A file is what the file system and the YAML parser make of a path: it is
\* missing, or its content does not parse, or it parses to a document.
loadFromFile(file) ==
    IF ~file.exists THEN Failure(CONFIG_FILE_NOT_FOUND)
    ELSE IF ~file.parses
    THEN Failure(CONFIG_PARSE_ERROR \o ": " \o file.message)
    ELSE LET validationResult_ == validateConfiguration(file.parsed)
         IN  IF validationResult_.threw
             THEN Failure(CONFIG_FILE_NOT_FOUND \o ": " \o validationResult_.message)
             ELSE IF Get(validationResult_.value, "isValid") # Bool(TRUE)
             THEN Failure(CONFIG_VALIDATION_ERROR \o ": "
                          \o JoinErrors(Get(validationResult_.value, "errors").v))
             ELSE Obj([success |-> Bool(TRUE),
                       configuration |->
                           Config(OrEmpty(Get(file.parsed, "supportedPlans")),
                                  OrEmpty(Get(file.parsed, "supportedRegions")),
                                  OrEmpty(Get(file.parsed, "features")),
                                  OrEmpty(Get(file.parsed, "rules"))),
                       error |-> Undefined])

----------------------------------------------------------------------------
(* FeatureFlagEvaluator *)

\* mutant of configurationLoaded: evaluate does not look at its configuration
configurationAssumedLoaded(held) == TRUE

\* line 76: this.configuration is set
configurationLoaded(held) == ~Falsy(held)

\* mutant of validationPassed: the verdict of the input validator is ignored
validationIgnored(validationResult_) == TRUE

\* line 87: validationResult.isValid
validationPassed(validationResult_) == ~Falsy(Get(validationResult_, "isValid"))

\* mutant of evaluationFailure: the error comes with an empty feature list
evaluationFailureWithFeatures(error) ==
    Obj([success |-> Bool(FALSE), features |-> Arr(<<>>), error |-> error])

\* lines 77-80, 89-92, 108-111: { success: false, error }
evaluationFailure(error) ==
    Obj([success |-> Bool(FALSE), features |-> Undefined, error |-> error])

\* mutant of evaluationSuccess: an empty list is reported as a failure
evaluationSuccessUnlessEmpty(features) ==
    IF features = Arr(<<>>)
    THEN Obj([success |-> Bool(FALSE), features |-> Undefined,
              error |-> Str("No features enabled")])
    ELSE Obj([success |-> Bool(TRUE), features |-> features, error |-> Undefined])

\* lines 100-103: { success: true, features: enabledFeatures }
evaluationSuccess(features) ==
    Obj([success |-> Bool(TRUE), features |-> features, error |-> Undefined])

\* mutant of tryEvaluateRules: what the rule engine throws is not caught
evaluateRulesUncaught(enabled) ==
    IF enabled.threw THEN Threw(enabled.message)
    ELSE Returned(evaluationSuccess(enabled.value))

\* lines 96-112: try { evaluateRules } catch: the list becomes a success,
\* an Error becomes a failure that carries its message
tryEvaluateRules(enabled) ==
    IF enabled.threw THEN Returned(evaluationFailure(Str(enabled.message)))
    ELSE Returned(evaluationSuccess(enabled.value))

\* evaluate(context): the result (and whether evaluate threw instead), and
\* the calls made to the input validator
\* and to the rule engine, in order
evaluate(held, validatorHeld, engineHeld, context) ==
    IF ~configurationLoaded(held)
    THEN [result |-> evaluationFailure(Str(CONFIG_NOT_LOADED)), threw |-> FALSE,
          trace |-> <<>>]
    ELSE LET validationResult_ == validate(validatorHeld, context)
             validated_ == [callee |-> "validate", arg |-> context,
                            result |-> Returned(validationResult_)]
         IN  IF ~validationPassed(validationResult_)
             THEN [result |->
                      evaluationFailure(
                          IF Len(Get(validationResult_, "errors").v) > 0
                             /\ ~Falsy(Get(validationResult_, "errors").v[1])
                          THEN Get(validationResult_, "errors").v[1]
                          ELSE Str("Validation failed")),
                   threw |-> FALSE,
                   trace |-> <<validated_>>]
             ELSE LET enabled == evaluateRules(engineHeld, context)
                      evaluated_ == [callee |-> "evaluateRules", arg |-> context,
                                     result |-> enabled]
                      completion == tryEvaluateRules(enabled)
                  IN  [result |-> completion.value,
                       threw |-> completion.threw,
                       trace |-> <<validated_, evaluated_>>]

\* Array.prototype.map(f => f.id)
RECURSIVE MapId(_)
MapId(q) == IF q = <<>> THEN <<>> ELSE <<Get(Head(q), "id")>> \o MapId(Tail(q))

\* mutant of getAvailableFeatures: the ids in the order of their definitions
getAvailableFeaturesAsDeclared(held) ==
    IF Falsy(held) THEN Arr(<<>>)
    ELSE Arr(MapId(Get(held, "features").v))

getAvailableFeatures(held) ==
    IF Falsy(held) THEN Arr(<<>>)
    ELSE Arr(ArraySort(MapId(Get(held, "features").v)))

getSupportedPlans(held) ==
    IF Falsy(held) THEN Arr(<<>>) ELSE Arr(Get(held, "supportedPlans").v)

getSupportedRegions(held) ==
    IF Falsy(held) THEN Arr(<<>>) ELSE Arr(Get(held, "supportedRegions").v)

----------------------------------------------------------------------------
(* The files and contexts the evaluator is driven with *)

ParsedFile(doc) == [exists |-> TRUE, parses |-> TRUE, parsed |-> doc, message |-> ""]

LoadableRules ==
    { Rule(Str("r1"), Arr(<<Cond("plan", "equals", Str("Pro"))>>),
           Arr(<<Str("ab"), Str("a")>>)),
      Rule(Str("r2"), Arr(<<Cond("region", "equals", Str("US")),
                            Cond("plan", "in", Arr(<<Str("Pro"), Str("ghost")>>))>>),
           Arr(<<Str("a"), Str("B")>>)),
      Rule(Str("r1"), Arr(<<Cond("plan", "equals", Str("Basic"))>>),
           Arr(<<Str("B")>>)) }

\* three well-formed documents' first sections, crossed with every rule list:
\* a rule list that refers to a plan, region or feature its document does
\* not declare makes the file fail validation
LoadableSections ==
    { <<Arr(<<Str("Basic"), Str("Pro")>>), Arr(<<Str("US"), Str("EU")>>),
        Arr(<<FeatureAB, FeatureA, FeatureB>>)>>,
      <<Arr(<<Str("Pro")>>), Arr(<<Str("EU"), Str("US")>>),
        Arr(<<FeatureB, FeatureA>>)>>,
      <<Arr(<<Str("Pro"), Str("Basic")>>), Arr(<<Str("EU")>>),
        Arr(<<FeatureB, FeatureAB, FeatureA>>)>> }

Files ==
    { ParsedFile(Config(sections[1], sections[2], sections[3], Arr(rules))) :
        sections \in LoadableSections,
        rules \in SeqsUpTo(LoadableRules, MaxRules) }
    \cup { ParsedFile(Null),
           ParsedFile(Config(Arr(<<Str("Pro")>>), Arr(<<Str("EU")>>),
                             Arr(<<Null, FeatureA>>),
                             Arr(<<Rule(Str("r1"),
                                        Arr(<<Cond("plan", "equals", Str("Pro"))>>),
                                        Arr(<<Str("a")>>))>>))),
           [exists |-> FALSE, parses |-> FALSE, parsed |-> Undefined, message |-> ""],
           [exists |-> TRUE, parses |-> FALSE, parsed |-> Undefined,
            message |-> "bad indentation"] }

\* loadFromFile, tabulated over the files
loadResults == [file \in Files |-> loadFromFile(file)]

Contexts ==
    { Context(u, r, p) :
        u \in { Str("u1"), Str(" "), Num(5), Undefined },
        r \in { Str("US"), Str("EU"), Str("us"), Str(" US"), Null },
        p \in { Str("Basic"), Str("Pro"), Str("ghost"), Undefined } }
    \cup { Null, Undefined, Str("a") }

----------------------------------------------------------------------------
(* A caller that does not await loadConfiguration: the call runs up to its  *)
(* await, where the loader has produced its result, and what follows the    *)
(* await runs later, after whatever the caller does in between.             *)

\* loadConfiguration calls in flight at one time
MaxPending == 2

ReloadFiles ==
    { ParsedFile(Config(Arr(<<Str("Basic"), Str("Pro")>>), Arr(<<Str("US"), Str("EU")>>),
                        Arr(<<FeatureAB, FeatureA, FeatureB>>),
                        Arr(<<Rule(Str("r1"), Arr(<<Cond("plan", "equals", Str("Pro"))>>),
                                   Arr(<<Str("ab"), Str("a")>>))>>))),
      ParsedFile(Config(Arr(<<Str("Pro"), Str("Basic")>>), Arr(<<Str("EU")>>),
                        Arr(<<FeatureB, FeatureAB, FeatureA>>),
                        Arr(<<Rule(Str("r1"), Arr(<<Cond("plan", "equals", Str("Basic"))>>),
                                   Arr(<<Str("B")>>))>>))),
      ParsedFile(Config(Arr(<<Str("Pro")>>), Arr(<<Str("EU"), Str("US")>>),
                        Arr(<<FeatureB, FeatureA>>),
                        Arr(<<Rule(Str("r1"), Arr(<<Cond("plan", "equals", Str("Basic"))>>),
                                   Arr(<<Str("B")>>))>>))),
      [exists |-> FALSE, parses |-> FALSE, parsed |-> Undefined, message |-> ""] }

ReloadContexts ==
    { Context(Str("u1"), Str("US"), Str("Pro")),
      Context(Str("u1"), Str("EU"), Str("Basic")),
      Context(Str("u1"), Str("US"), Str("Basic")),
      Context(Str("u1"), Str("EU"), Str("Pro")),
      Context(Str(" "), Str("EU"), Str("Pro")),
      Null }

----------------------------------------------------------------------------
(* The evaluator's operations *)

\* mutant of loaded: the result of the loader is installed whatever it is
loadedWhateverResult(result) == TRUE

\* line 53: result.success && result.configuration
loaded(result) == ~Falsy(Get(result, "success")) /\ ~Falsy(Get(result, "configuration"))

\* mutant of setConfiguration: the input validator keeps what it held
setConfigurationKeepingHeld(held, config) == held

\* InputValidatorImpl.setConfiguration: this.configuration = configuration
setConfiguration(held, config) == config

\* lines 53-59: what follows the await in loadConfiguration, run as one
\* synchronous block
Install(file, result) ==
    /\ IF loaded(result)
       THEN /\ configuration' = Get(result, "configuration")
            /\ inputValidator' = setConfiguration(inputValidator, Get(result, "configuration"))
            /\ ruleEngine' = Get(result, "configuration")
       ELSE UNCHANGED <<configuration, inputValidator, ruleEngine>>
    /\ call' = [op |-> "loadConfiguration", arg |-> file,
                result |-> Returned(result), trace |-> <<>>]

\* await evaluator.loadConfiguration(file): the caller does nothing else
\* until the promise settles
LoadConfiguration(file) ==
    /\ pending = <<>>
    /\ Install(file, loadResults[file])
    /\ UNCHANGED <<engine, document, pending, first>>

\* lines 50-51: loadConfiguration up to its await
LoadConfigurationBegin(file) ==
    /\ Len(pending) < MaxPending
    /\ pending' = Append(pending, [file |-> file, result |-> loadResults[file]])
    /\ UNCHANGED <<engine, configuration, inputValidator, ruleEngine, document,
                   call, first>>

\* lines 53-59: the oldest suspended loadConfiguration resumes
LoadConfigurationResume ==
    /\ pending # <<>>
    /\ Install(Head(pending).file, Head(pending).result)
    /\ pending' = Tail(pending)
    /\ UNCHANGED <<engine, document, first>>

Evaluate(context) ==
    LET done == evaluate(configuration, inputValidator, ruleEngine, context)
    IN  /\ call' = [op |-> "evaluate", arg |-> context,
                    result |-> IF done.threw THEN Threw("Error")
                               ELSE Returned(done.result),
                    trace |-> done.trace]
        /\ UNCHANGED <<engine, configuration, inputValidator, ruleEngine, document, pending, first>>

\* mutant of heldAfterSort: sort() is applied to configuration.features
\* itself, the array that the input validator and the rule engine share
heldSortedInPlace(held) ==
    IF Falsy(held) THEN held
    ELSE LET features == Get(held, "features").v
             ids == ArraySort(MapId(features))
         IN  Obj([held.v EXCEPT !["features"] =
                    Arr([i \in 1..Len(features) |->
                           CHOOSE f \in Range(features) : Get(f, "id") = ids[i]])])

\* line 130: map() builds a new array and sort() orders that array in
\* place, so the configuration held keeps its features as they were
heldAfterSort(held) == held

GetAvailableFeatures ==
    /\ call' = [op |-> "getAvailableFeatures", arg |-> Undefined,
                result |-> Returned(getAvailableFeatures(configuration)),
                trace |-> <<>>]
    /\ configuration' = heldAfterSort(configuration)
    /\ inputValidator' = heldAfterSort(inputValidator)
    /\ ruleEngine' = heldAfterSort(ruleEngine)
    /\ UNCHANGED <<engine, document, pending, first>>

GetSupportedPlans ==
    /\ call' = [op |-> "getSupportedPlans", arg |-> Undefined,
                result |-> Returned(getSupportedPlans(configuration)),
                trace |-> <<>>]
    /\ UNCHANGED <<engine, configuration, inputValidator, ruleEngine, document, pending, first>>

GetSupportedRegions ==
    /\ call' = [op |-> "getSupportedRegions", arg |-> Undefined,
                result |-> Returned(getSupportedRegions(configuration)),
                trace |-> <<>>]
    /\ UNCHANGED <<engine, configuration, inputValidator, ruleEngine, document, pending, first>>

NextEvaluator ==
    \/ \E file \in Files : LoadConfiguration(file)
    \/ \E context \in Contexts : Evaluate(context)
    \/ GetAvailableFeatures
    \/ GetSupportedPlans
    \/ GetSupportedRegions

SpecEvaluator == InitFresh /\ [][NextEvaluator]_vars

NextReload ==
    \/ \E file \in ReloadFiles : LoadConfigurationBegin(file)
    \/ LoadConfigurationResume
    \/ \E context \in ReloadContexts : Evaluate(context)

SpecReload == InitFresh /\ [][NextReload]_vars

----------------------------------------------------------------------------
(* A caller that keeps a result and repeats the call later, after calls    *)
(* with other arguments                                                    *)

RepeatConfigs ==
    { Config(Arr(<<Str("Basic"), Str("Pro")>>), Arr(<<Str("US"), Str("EU")>>),
             Arr(<<Feature(Str("a"), Str("A"), Undefined)>>), Arr(rules)) :
        rules \in
          { <<Rule(Str("r1"), Arr(<<Cond("plan", "equals", Str("Pro"))>>),
                   Arr(<<Str("ab"), Str("a")>>)),
              Rule(Str("r2"), Arr(<<Cond("region", "equals", Str("US"))>>),
                   Arr(<<Str("a"), Str("B")>>))>>,
            <<Rule(Str("r1"), Arr(<<Cond("region", "in", Str("EU"))>>),
                   Arr(<<Str("ghost"), Str("a")>>))>> } }

\* const first = evaluate(context), or evaluateRules(context)
Remember ==
    /\ call.op \in {"evaluate", "evaluateRules"}
    /\ first' = [engine |-> engine, configuration |-> configuration, call |-> call]
    /\ UNCHANGED <<engine, configuration, inputValidator, ruleEngine, document,
                   call, pending>>

NextRepeat ==
    \/ \E cfg \in RepeatConfigs : EngineSetConfiguration(cfg)
    \/ \E context \in EngineContexts : EngineEvaluateRules(context)
    \/ \E file \in ReloadFiles : LoadConfiguration(file)
    \/ \E context \in ReloadContexts : Evaluate(context)
    \/ Remember

SpecRepeat == InitFresh /\ [][NextRepeat]_vars

----------------------------------------------------------------------------
(* Claims about the evaluator *)

evaluated == call.op = "evaluate"

evaluation == call.result.value

succeeded == evaluated /\ Get(evaluation, "success") = Bool(TRUE)

\* the calls evaluate made to the rule engine
engineCalls == { i \in 1..Len(call.trace) : call.trace[i].callee = "evaluateRules" }

StrictlyAscending(list) ==
    \A i, j \in 1..Len(list) :
        i < j => CodeUnitsLess(CodeUnits[list[i].v], CodeUnits[list[j].v])

\* C2: the feature list of every successful evaluation (the list
\* evaluateRules returns to evaluate, and the list evaluate returns with
\* success=true) is strictly ascending in code-unit order and repeats no
\* element.
C2_SortedAndUnique ==
    evaluated =>
        /\ \A i \in engineCalls :
              ~call.trace[i].result.threw =>
                  /\ StrictlyAscending(call.trace[i].result.value.v)
                  /\ \A j, k \in 1..Len(call.trace[i].result.value.v) :
                        j # k => call.trace[i].result.value.v[j]
                                   # call.trace[i].result.value.v[k]
        /\ succeeded =>
              /\ StrictlyAscending(Get(evaluation, "features").v)
              /\ Cardinality(Range(Get(evaluation, "features").v))
                    = Len(Get(evaluation, "features").v)

\* two matching rules list overlapping features, out of order
C2_Witness ==
    /\ succeeded
    /\ Len(Get(evaluation, "features").v) = 3
    /\ Get(configuration, "rules").v[1] =
          Rule(Str("r1"), Arr(<<Cond("plan", "equals", Str("Pro"))>>),
               Arr(<<Str("ab"), Str("a")>>))

C5_ValidationBeforeEvaluation ==
    evaluated =>
        \A i \in engineCalls :
            /\ i > 1
            /\ call.trace[i - 1].callee = "validate"
            /\ call.trace[i - 1].arg = call.trace[i].arg
            /\ call.trace[i].arg = call.arg
            /\ Get(call.trace[i - 1].result.value, "isValid") = Bool(TRUE)
            /\ Get(call.trace[i - 1].result.value, "errors") = Arr(<<>>)
            /\ configuration # Undefined

\* a loaded evaluator was given a context its validator rejects
C5_Witness ==
    /\ evaluated
    /\ configuration # Undefined
    /\ Len(call.trace) = 1
    /\ call.trace[1].callee = "validate"
    /\ Get(call.trace[1].result.value, "isValid") = Bool(FALSE)

\* C6: every EvaluationResult carries exactly one payload: success=true with
\* a features array and no error, or success=false with a non-empty error
\* string and no features.
C6_OnePayload ==
    evaluated =>
        /\ Get(evaluation, "success").t = "boolean"
        /\ Get(evaluation, "success") = Bool(TRUE) =>
              /\ Get(evaluation, "features").t = "array"
              /\ Get(evaluation, "error") = Undefined
        /\ Get(evaluation, "success") = Bool(FALSE) =>
              /\ Get(evaluation, "error").t = "string"
              /\ Get(evaluation, "error") # Str("")
              /\ Get(evaluation, "features") = Undefined

C6_Witness ==
    /\ evaluated
    /\ Get(evaluation, "success") = Bool(FALSE)
    /\ configuration # Undefined

\* C7: once a configuration is loaded, evaluate returns success=true with
\* the rule engine's feature list (possibly empty) for every context whose
\* userId is non-blank after trimming, whose region is in the loaded
\* supportedRegions and whose plan is in the loaded supportedPlans.
C7_ValidContextSucceeds ==
    ( /\ evaluated
      /\ configuration # Undefined
      /\ Get(call.arg, "userId").t = "string"
      /\ ~IsBlank(Get(call.arg, "userId").v)
      /\ Get(call.arg, "region") \in Range(Get(configuration, "supportedRegions").v)
      /\ Get(call.arg, "plan") \in Range(Get(configuration, "supportedPlans").v) )
    => /\ Get(evaluation, "success") = Bool(TRUE)
       /\ Get(evaluation, "error") = Undefined
       /\ Get(evaluation, "features") =
             Arr(evaluateRulesOf(Get(configuration, "rules").v, call.arg))

\* a valid context that no rule matches: the empty list is a success
C7_Witness ==
    /\ succeeded
    /\ Get(evaluation, "features") = Arr(<<>>)

\* the last call was a loadConfiguration that failed
loadFailed ==
    call.op = "loadConfiguration" /\ Get(call.result.value, "success") # Bool(TRUE)

\* C15: a loadConfiguration call that fails (file not found, parse error or
\* validation error) leaves the evaluator as it was: the configuration, the
\* input validator and the rule engine keep what they held, so evaluate and
\* the query methods answer as before the call, and a never-loaded
\* evaluator stays not loaded.
C15_FailedLoadChangesNothing ==
    [][ loadFailed' =>
          /\ UNCHANGED <<configuration, inputValidator, ruleEngine>>
          /\ getAvailableFeatures(configuration') = getAvailableFeatures(configuration)
          /\ getSupportedPlans(configuration') = getSupportedPlans(configuration)
          /\ getSupportedRegions(configuration') = getSupportedRegions(configuration)
          /\ \A context \in {Context(Str("u1"), Str("US"), Str("Pro")),
                               Context(Str("u1"), Str("EU"), Str("Basic"))} :
                evaluate(configuration', inputValidator', ruleEngine', context)
                    = evaluate(configuration, inputValidator, ruleEngine, context)
      ]_vars

\* a load failed on validation while an earlier configuration was active
C15_Witness ==
    /\ loadFailed
    /\ configuration # Undefined
    /\ call.arg.exists /\ call.arg.parses

\* C16: replacing the configuration is atomic for evaluate: an evaluation
\* made while a loadConfiguration is in flight uses one configuration, the
\* old one or the new one, for its loaded-check, for the input validator's
\* supported plans and regions and for the rule engine's rules.
C16_AtomicReplacement ==
    /\ inputValidator = configuration
    /\ ruleEngine = configuration
    /\ evaluated =>
          LET whole == evaluate(configuration, configuration, configuration, call.arg)
          IN  /\ call.result.value = whole.result
              /\ call.trace = whole.trace

\* an evaluation was made on a loaded evaluator while a loadConfiguration
\* that is going to install another configuration was suspended
C16_Witness ==
    /\ evaluated
    /\ configuration # Undefined
    /\ pending # <<>>
    /\ loaded(Head(pending).result)
    /\ Get(Head(pending).result, "configuration") # configuration
    /\ evaluate(configuration, inputValidator, ruleEngine, call.arg).result
          # LET new == Get(Head(pending).result, "configuration")
            IN  evaluate(new, new, new, call.arg).result

C18_FeaturesAreAvailable ==
    succeeded =>
        Range(Get(evaluation, "features").v)
            \subseteq Range(getAvailableFeatures(configuration).v)

\* features were returned, and the catalog holds a feature that was not
C18_Witness ==
    /\ succeeded
    /\ Len(Get(evaluation, "features").v) > 1
    /\ Range(getAvailableFeatures(configuration).v)
          # Range(Get(evaluation, "features").v)

\* the verdict of the input validator in the last evaluate call
validatorVerdict == Get(call.trace[1].result.value, "isValid")

\* C19: with a configuration set, validate returns isValid=true if and only
\* if the context is not null, its userId is a string that is not blank
\* after trimming, its region is exactly one of supportedRegions and its
\* plan is exactly one of supportedPlans.
C19_ValidIffContextWellFormed ==
    (evaluated /\ inputValidator # Undefined) =>
        /\ Len(call.trace) > 0
        /\ call.trace[1].callee = "validate"
        /\ (validatorVerdict = Bool(TRUE)) <=>
              /\ call.arg.t \notin {"null", "undefined"}
              /\ Get(call.arg, "userId").t = "string"
              /\ \E i \in 1..Len(CodeUnits[Get(call.arg, "userId").v]) :
                    CodeUnits[Get(call.arg, "userId").v][i] # 32
              /\ Get(call.arg, "region")
                    \in Range(Get(inputValidator, "supportedRegions").v)
              /\ Get(call.arg, "plan")
                    \in Range(Get(inputValidator, "supportedPlans").v)

\* a context was rejected for its region alone, which differs from a
\* supported region by case or by a leading blank
C19_Witness ==
    /\ evaluated /\ inputValidator # Undefined
    /\ validatorVerdict = Bool(FALSE)
    /\ Get(call.trace[1].result.value, "errors") = Arr(<<Str(UNSUPPORTED_REGION)>>)
    /\ Get(call.arg, "region") \in {Str("us"), Str(" US")}
    /\ Str("US") \in Range(Get(inputValidator, "supportedRegions").v)

\* the last call was one of the three query methods
queried == call.op \in {"getAvailableFeatures", "getSupportedPlans", "getSupportedRegions"}

validatorErrors == Get(call.trace[1].result.value, "errors").v

\* the errors due for the fields of the context of the last call, in the
\* order userId, region, plan
fieldErrors ==
    (IF Get(call.arg, "userId").t = "string" /\ ~IsBlank(Get(call.arg, "userId").v)
     THEN <<>> ELSE <<Str("Invalid or empty userId")>>)
    \o (IF Get(call.arg, "region") \in Range(Get(inputValidator, "supportedRegions").v)
        THEN <<>> ELSE <<Str("Unsupported region")>>)
    \o (IF Get(call.arg, "plan") \in Range(Get(inputValidator, "supportedPlans").v)
        THEN <<>> ELSE <<Str("Unsupported plan")>>)

\* C27: with a configuration set, validate reports one error per invalid
\* field of a non-null context, in the order userId, region, plan, and
\* evaluate returns the first of them as its error; a null or undefined
\* context gets the single error "Missing or null user context".
C27_ValidatorErrorOrder ==
    (evaluated /\ inputValidator # Undefined) =>
        /\ call.arg.t \in {"null", "undefined"} =>
              validatorErrors = <<Str("Missing or null user context")>>
        /\ call.arg.t \notin {"null", "undefined"} => validatorErrors = fieldErrors
        /\ validatorErrors # <<>> =>
              evaluation = Obj([success |-> Bool(FALSE), features |-> Undefined,
                                error |-> validatorErrors[1]])

\* a context invalid in its three fields
C27_Witness ==
    /\ evaluated /\ inputValidator # Undefined
    /\ call.arg.t = "object"
    /\ Len(validatorErrors) = 3
    /\ Get(evaluation, "error") = Str(INVALID_USER_ID)

\* evaluate on the evaluator as it is, but with a rule engine that throws
engineThrowing == evaluate(configuration, inputValidator, Undefined, call.arg)

\* C28: evaluate is total: for every input and in every state of the
\* evaluator it returns an EvaluationResult and does not throw, and what the
\* rule engine throws becomes a success=false result with the message
\* thrown.
C28_EvaluateTotal ==
    evaluated =>
        /\ ~call.result.threw
        /\ evaluation.t = "object"
        /\ Get(evaluation, "success").t = "boolean"
        /\ (\E i \in 1..Len(engineThrowing.trace) :
               engineThrowing.trace[i].callee = "evaluateRules") =>
              /\ ~engineThrowing.threw
              /\ engineThrowing.result =
                    Obj([success |-> Bool(FALSE), features |-> Undefined,
                         error |-> Str(engineThrowing.trace[2].result.message)])

\* an evaluation that reached the rule engine
C28_Witness ==
    /\ succeeded
    /\ Len(engineThrowing.trace) = 2
    /\ engineThrowing.trace[2].result.threw

\* an evaluation of a context that is no object, and of one whose fields
\* are no strings
C28_WitnessMalformed ==
    /\ evaluated /\ configuration # Undefined
    /\ \/ call.arg = Str("a")
       \/ Get(call.arg, "userId") = Num(5) /\ Get(call.arg, "region") = Null

\* what the evaluator holds
held == <<configuration, inputValidator, ruleEngine>>

\* C29: evaluate (with the validate and evaluateRules calls it makes) and
\* the three query methods are read-only: they leave the loaded
\* configuration and the loaded or not-loaded state as they were, so what
\* the evaluator holds changes only in a loadConfiguration that succeeds.
C29_ReadOnlyOperations ==
    [][ /\ call'.op \in {"evaluate", "getAvailableFeatures", "getSupportedPlans",
                         "getSupportedRegions"} => held' = held
        /\ held' # held =>
              /\ call'.op = "loadConfiguration"
              /\ Get(call'.result.value, "success") = Bool(TRUE)
      ]_vars

\* getAvailableFeatures has returned its sorted list, and the features of
\* the configuration held are still in the order of the document
C29_Witness ==
    /\ call.op = "getAvailableFeatures"
    /\ configuration # Undefined
    /\ inputValidator = configuration /\ ruleEngine = configuration
    /\ ~StrictlyAscending(MapId(Get(configuration, "features").v))

====
